---- MODULE Spec2Model ----
(***************************************************************************)
(* Model of gregorkrz/rag-demo.                                            *)
(*                                                                         *)
(*  - the chain watcher of flare_ai_rag/main_multiple_models_EventListener *)
(*    (start, process_text) and the chain it polls;                        *)
(*  - the coroutine body of process_text, driven to completion by an event *)
(*    loop (SpecProcessText), next to the watcher loop as it is written,   *)
(*    which only creates the coroutine objects (SpecWatcher);              *)
(*  - the chat orchestrator of flare_ai_rag/api/routes/chat.py;            *)
(*  - generate_collection of flare_ai_rag/retriever/qdrant_collection.py;  *)
(*  - FlareProvider of playground_transactions.py.                         *)
(***************************************************************************)
EXTENDS Integers, Sequences, FiniteSets, TLC

(***************************************************************************)
(* Bounds of the model and constants of the program.                       *)
(***************************************************************************)
\* start(): from_block = block_number - 10
Window == 10
\* the watcher is observed for this many iterations of `while True`
MaxPolls == 3
\* RequestSubmitted events emitted on the chain
MaxEvents == 2
\* blocks mined after the first poll can see the chain
MaxMined == 12

RequestIds == {1, 2}
Texts == {"claim_a"}

\* MODELS, in list order; providers and contracts are keyed by these in the
\* same (insertion) order
MODELS == <<"gemini-1.5-flash", "gemini-2.0-flash-lite", "gemini-1.5-flash-8b">>

ModelSet == {MODELS[i] : i \in 1..Len(MODELS)}

\* account_addresses / private_keys: every model of MODELS has both, so every
\* model gets a provider and a contract handle
account_addresses == [m \in ModelSet |-> <<"address", m>>]

private_keys == [m \in ModelSet |-> <<"key", m>>]

providers == [m \in ModelSet |->
                 [address |-> account_addresses[m], private_key |-> private_keys[m]]]

contracts == [m \in ModelSet |-> <<"contract", m>>]

\* routers[model]: the ChatRouter built for the model (a str, a ChatRouter and
\* any other object are told apart by `kind`)
routers == [m \in ModelSet |-> [kind |-> "ChatRouter", model |-> m]]

\* process_text invocations driven to completion when the coroutine body is
\* exercised on its own
MaxCalls == 2
\* POST / requests answered
MaxRequests == 2

VARIABLES
    \* ---- the chain (external) ----
    blockNumber,            \* w3.eth.block_number
    chainLogs,              \* RequestSubmitted events, in chain order
    txCount,                \* mined transaction count of each account
    sentTxs,                \* raw transactions handed to send_raw_transaction
    \* ---- the watcher: start() ----
    pc,                     \* position of start() in its loop
    logs,                   \* result of get_logs in this iteration
    logIdx,                 \* position of `for log in logs`
    modelIdx,               \* position of `for model in providers`
    processed_request_ids,  \* the module-level set
    polls,                  \* iterations of `while True` started
    coroutines,             \* coroutine objects created by calls of process_text
    dispatched,             \* history: <<iteration, requestId>> per pass of line 231
    \* ---- the event loop ----
    running,                \* index of the coroutine being run, 0 when none is
    \* ---- the chat endpoint: one POST / at a time ----
    chatPc,                 \* position of chat() and of the handler it awaits
    message,                \* message.message
    routeReply,             \* history: what the semantic-router LLM call gave
    route,                  \* the value get_semantic_route returned
    classification,         \* what query_router.route_query returned
    retrieved_docs,         \* what retriever.semantic_search returned
    answer,                 \* what responder.generate_response returned
    result,                 \* the dict the handler returned
    error,                  \* the exception that reached chat()'s except clause
    stages,                 \* history: the stages called for this request
    reply,                  \* the HTTP response of the last request
    requests,               \* requests answered
    attestation_requested,  \* self.attestation.attestation_requested
    \* ---- generate_collection and the Qdrant collection ----
    df_docs,                \* the table of documents
    collection,             \* the collection in Qdrant: whether it exists, its point ids
    collAtCall,             \* history: the collection when the call at hand began
    gcPc,                   \* position of generate_collection
    gcCalls,                \* calls of generate_collection that returned
    idx,                    \* rows the loop has taken
    points,                 \* the local list `points`: the ids of its PointStructs
    embedded,               \* history: rows embed_content was called for in this call
    gcLog,                  \* history: <<row, message>> logged in this call
    recreated,              \* history: recreate_collection was called in this call
    upserted,               \* history: upsert was called in this call
    \* ---- a FlareProvider of playground_transactions.py ----
    address,                \* self.address
    private_key,            \* self.private_key
    tx_queue,               \* self.tx_queue: the transactions, oldest first
    fpSigned,               \* history: calls of sign_transaction
    fpSent,                 \* history: the transactions given to send_raw_transaction
    fpAdded,                \* history: transactions added, numbered 1, 2, ...
    fpPopped,               \* history: transactions send_tx_in_queue returned a hash for
    fpResetAt,              \* history: fpAdded at the last reset()
    fpSinceReset,           \* history: no account was set up since the last reset()
    fpLast,                 \* history: the last call, its outcome and the state before it
    fpOps                   \* history: calls made

chainVars == <<blockNumber, chainLogs, txCount, sentTxs>>
watcherVars == <<pc, logs, logIdx, modelIdx, processed_request_ids, polls, dispatched>>
chatVars == <<chatPc, message, routeReply, route, classification, retrieved_docs, answer,
              result, error, stages, reply, requests, attestation_requested>>
collVars == <<df_docs, collection, collAtCall, gcPc, gcCalls, idx, points, embedded, gcLog,
              recreated, upserted>>
fpVars == <<address, private_key, tx_queue, fpSigned, fpSent, fpAdded, fpPopped,
            fpResetAt, fpSinceReset, fpLast, fpOps>>
restVars == <<collVars, fpVars>>
vars == <<chainVars, watcherVars, coroutines, running, chatVars, restVars>>

InitialBlock == Window

MaxBlock == InitialBlock + MaxMined

(***************************************************************************)
(* The chain.                                                              *)
(***************************************************************************)
InitChain ==
    /\ blockNumber = InitialBlock
    /\ chainLogs = << >>
    /\ txCount = [m \in ModelSet |-> 0]
    /\ sentTxs = << >>

\* a block without a RequestSubmitted event of the contract
MineEmptyBlock ==
    /\ blockNumber < MaxBlock
    /\ blockNumber' = blockNumber + 1
    /\ UNCHANGED <<chainLogs, txCount, sentTxs>>

\* a block holding one RequestSubmitted(requestId, text) event; nothing in the
\* watcher's code assumes the ids of distinct events differ
MineRequest(rid, text) ==
    /\ blockNumber < MaxBlock
    /\ Len(chainLogs) < MaxEvents
    /\ blockNumber' = blockNumber + 1
    /\ chainLogs' = Append(chainLogs,
                           [requestId |-> rid, text |-> text, blockNumber |-> blockNumber + 1])
    /\ UNCHANGED <<txCount, sentTxs>>

\* RequestSubmitted().get_logs(from_block=...)
get_logs(from_block) ==
    SelectSeq(chainLogs, LAMBDA e : e.blockNumber >= from_block)

(***************************************************************************)
(* process_text: the call and the coroutine object it returns.             *)
(***************************************************************************)
\* `async def process_text(...)`: a call binds the arguments and returns a
\* coroutine object; no line of the body runs until the object is awaited or
\* handed to an event loop.
NewCoroutine(text, request_id, provider, contract, chat_router) ==
    [text |-> text, request_id |-> request_id, provider |-> provider,
     contract |-> contract, chat_router |-> chat_router,
     at |-> "created", nonce |-> -1, response |-> "none", calls |-> << >>,
     exception_printed |-> FALSE]

(***************************************************************************)
(* process_text: the coroutine body, one action per external call. The     *)
(* actions step the coroutine an event loop is running; the outcome of     *)
(* each external call (a value or an exception) is the environment's.      *)
(***************************************************************************)
Cur == coroutines[running]

SetCur(c) == [coroutines EXCEPT ![running] = c]

Called(c, name) == [c EXCEPT !.calls = Append(@, name)]

\* an exception leaves the coroutine: asyncio.run re-raises it in the caller
Raise(c) == [c EXCEPT !.at = "raised"]

\* lines 206-208: `except: print("Exception"); return`
ExceptReturn_FallThrough(c) == [c EXCEPT !.at = "build", !.exception_printed = TRUE]

ExceptReturn(c) == [c EXCEPT !.at = "returned_exception", !.exception_printed = TRUE]

\* `chat_router.asyncquery`: the attribute lookup. A str has no such attribute,
\* and the ChatRouter class of api/routes/chat.py defines none either.
HasAsyncQuery(chat_router) == chat_router.kind \notin {"str", "ChatRouter"}

\* what asyncquery may hand back: a JSON-serialisable result or one that
\* json.dumps rejects
Responses == {"serialisable", "unserialisable"}

\* line 195: nonce = provider.w3.eth.get_transaction_count(provider.address),
\* outside the try block
PT_Nonce ==
    /\ running # 0
    /\ Cur.at = "start"
    /\ \/ coroutines' = SetCur([Called(Cur, "get_transaction_count") EXCEPT
                                   !.nonce = txCount[Cur.provider], !.at = "query"])
       \/ coroutines' = SetCur(Raise(Called(Cur, "get_transaction_count")))
    /\ UNCHANGED <<running, chainVars, watcherVars, chatVars, restVars>>

\* line 204: response = await chat_router.asyncquery(text), inside the try
PT_Query ==
    /\ running # 0
    /\ Cur.at = "query"
    /\ IF HasAsyncQuery(Cur.chat_router)
       THEN \/ \E r \in Responses :
                 coroutines' = SetCur([Called(Cur, "asyncquery") EXCEPT
                                          !.response = r, !.at = "dumps"])
            \/ coroutines' = SetCur(ExceptReturn(Called(Cur, "asyncquery")))
       ELSE coroutines' = SetCur(ExceptReturn(Cur))
    /\ UNCHANGED <<running, chainVars, watcherVars, chatVars, restVars>>

\* line 205: response = json.dumps(response), inside the try
PT_Dumps ==
    /\ running # 0
    /\ Cur.at = "dumps"
    /\ IF Cur.response = "serialisable"
       THEN coroutines' = SetCur([Called(Cur, "dumps") EXCEPT !.at = "build"])
       ELSE coroutines' = SetCur(ExceptReturn(Called(Cur, "dumps")))
    /\ UNCHANGED <<running, chainVars, watcherVars, chatVars, restVars>>

\* line 209: contract.functions.submitVerification(...).build_transaction(tx),
\* after the try block
PT_Build ==
    /\ running # 0
    /\ Cur.at = "build"
    /\ \/ coroutines' = SetCur([Called(Cur, "build_transaction") EXCEPT !.at = "sign"])
       \/ coroutines' = SetCur(Raise(Called(Cur, "build_transaction")))
    /\ UNCHANGED <<running, chainVars, watcherVars, chatVars, restVars>>

\* line 210: sign_transaction(result, private_key=provider.private_key)
PT_Sign ==
    /\ running # 0
    /\ Cur.at = "sign"
    /\ \/ coroutines' = SetCur([Called(Cur, "sign_transaction") EXCEPT !.at = "send"])
       \/ coroutines' = SetCur(Raise(Called(Cur, "sign_transaction")))
    /\ UNCHANGED <<running, chainVars, watcherVars, chatVars, restVars>>

\* the transaction of lines 196-202 and 209-210, as the node receives it
SignedTx(c) ==
    [from |-> providers[c.provider].address, nonce |-> c.nonce,
     contract |-> c.contract, requestId |-> c.request_id, response |-> c.response,
     key |-> providers[c.provider].private_key, mined |-> FALSE]

\* lines 211-212: send_raw_transaction, then the final print; no receipt is
\* awaited
PT_Send ==
    /\ running # 0
    /\ Cur.at = "send"
    /\ \/ /\ coroutines' = SetCur([Called(Cur, "send_raw_transaction") EXCEPT !.at = "done"])
          /\ sentTxs' = Append(sentTxs, SignedTx(Cur))
       \/ /\ coroutines' = SetCur(Raise(Called(Cur, "send_raw_transaction")))
          /\ UNCHANGED sentTxs
    /\ UNCHANGED <<running, blockNumber, chainLogs, txCount, watcherVars, chatVars, restVars>>

Finished(c) == c.at \in {"done", "returned_exception", "raised"}

\* the event loop is done with the coroutine
PT_Exit ==
    /\ running # 0
    /\ Finished(Cur)
    /\ running' = 0
    /\ UNCHANGED <<coroutines, chainVars, watcherVars, chatVars, restVars>>

\* the node mines a sent transaction whose nonce is the account's next one
MineTx ==
    /\ \E i \in 1..Len(sentTxs) :
         LET m == CHOOSE x \in ModelSet : account_addresses[x] = sentTxs[i].from IN
         /\ ~sentTxs[i].mined
         /\ sentTxs[i].nonce = txCount[m]
         /\ sentTxs' = [sentTxs EXCEPT ![i].mined = TRUE]
         /\ txCount' = [txCount EXCEPT ![m] = @ + 1]
    /\ UNCHANGED <<blockNumber, chainLogs, coroutines, running, watcherVars, chatVars, restVars>>

\* arguments a caller can bind to chat_router: the model name start() passes,
\* the ChatRouter built for a model, or an object that does have asyncquery
ChatRouterArgs(m) ==
    {[kind |-> "str", model |-> m], routers[m], [kind |-> "asyncquery", model |-> m]}

\* process_text run to completion on the arguments given, as asyncio.run does:
\* the coroutine object is created and its body started
RunProcessText ==
    /\ running = 0
    /\ Len(coroutines) < MaxCalls
    /\ \E text \in Texts, request_id \in RequestIds, m \in ModelSet :
       \E chat_router \in ChatRouterArgs(m) :
         coroutines' = Append(coroutines,
                              [NewCoroutine(text, request_id, m, contracts[m], chat_router)
                                  EXCEPT !.at = "start"])
    /\ running' = Len(coroutines) + 1
    /\ UNCHANGED <<chainVars, watcherVars, chatVars, restVars>>

(***************************************************************************)
(* The watcher: start().                                                   *)
(***************************************************************************)
InitWatcher ==
    /\ pc = "poll"
    /\ logs = << >>
    /\ logIdx = 1
    /\ modelIdx = 1
    /\ processed_request_ids = {}
    /\ polls = 0
    /\ dispatched = << >>

\* line 229: `if log.args.requestId in processed_request_ids: continue`
AlreadyProcessed_NoCheck(rid) == FALSE

AlreadyProcessed(rid) == rid \in processed_request_ids

\* line 231: processed_request_ids.add(log.args.requestId)
MarkProcessed_Forget(rid) == processed_request_ids

MarkProcessed(rid) == processed_request_ids \cup {rid}

\* line 235: process_text(log.args.text, log.args.requestId, provider, contract,
\* model): the last argument is the model name, and the call is a bare
\* expression statement of a synchronous function: the coroutine object is
\* created and dropped.
CallProcessText(log, model) ==
    NewCoroutine(log.text, log.requestId, model, contracts[model],
                 [kind |-> "str", model |-> model])

\* lines 226-227: read the head, fetch the trailing window
Poll ==
    /\ pc = "poll"
    /\ polls < MaxPolls
    /\ polls' = polls + 1
    /\ logs' = get_logs(blockNumber - Window)
    /\ logIdx' = 1
    /\ pc' = "for_logs"
    /\ UNCHANGED <<modelIdx, processed_request_ids, dispatched, coroutines, running,
                   chainVars, chatVars, restVars>>

\* lines 228-230: an event whose id is in the set is skipped
SkipLog ==
    /\ pc = "for_logs"
    /\ logIdx <= Len(logs)
    /\ AlreadyProcessed(logs[logIdx].requestId)
    /\ logIdx' = logIdx + 1
    /\ UNCHANGED <<pc, logs, modelIdx, processed_request_ids, polls, dispatched,
                   coroutines, running, chainVars, chatVars, restVars>>

\* lines 228-231: a new id is added to the set and the models are iterated
TakeLog ==
    /\ pc = "for_logs"
    /\ logIdx <= Len(logs)
    /\ ~AlreadyProcessed(logs[logIdx].requestId)
    /\ processed_request_ids' = MarkProcessed(logs[logIdx].requestId)
    /\ dispatched' = Append(dispatched, <<polls, logs[logIdx].requestId>>)
    /\ modelIdx' = 1
    /\ pc' = "for_models"
    /\ UNCHANGED <<logs, logIdx, polls, coroutines, running, chainVars, chatVars, restVars>>

\* lines 232-235: one pass of `for model in providers`
Dispatch ==
    /\ pc = "for_models"
    /\ modelIdx <= Len(MODELS)
    /\ coroutines' = Append(coroutines, CallProcessText(logs[logIdx], MODELS[modelIdx]))
    /\ modelIdx' = modelIdx + 1
    /\ UNCHANGED <<pc, logs, logIdx, processed_request_ids, polls, dispatched, running,
                   chainVars, chatVars, restVars>>

\* end of `for model in providers`: next log
EndModels ==
    /\ pc = "for_models"
    /\ modelIdx > Len(MODELS)
    /\ logIdx' = logIdx + 1
    /\ pc' = "for_logs"
    /\ UNCHANGED <<logs, modelIdx, processed_request_ids, polls, dispatched,
                   coroutines, running, chainVars, chatVars, restVars>>

\* end of `for log in logs`
EndLogs ==
    /\ pc = "for_logs"
    /\ logIdx > Len(logs)
    /\ pc' = "sleep"
    /\ UNCHANGED <<logs, logIdx, modelIdx, processed_request_ids, polls, dispatched,
                   coroutines, running, chainVars, chatVars, restVars>>

\* line 236: sleep(3), then the next iteration of `while True`
Sleep ==
    /\ pc = "sleep"
    /\ pc' = "poll"
    /\ UNCHANGED <<logs, logIdx, modelIdx, processed_request_ids, polls, dispatched,
                   coroutines, running, chainVars, chatVars, restVars>>

ChainStep ==
    /\ polls < MaxPolls
    /\ \/ MineEmptyBlock
       \/ \E rid \in RequestIds, text \in Texts : MineRequest(rid, text)
    /\ UNCHANGED <<watcherVars, coroutines, running, chatVars, restVars>>

(***************************************************************************)
(* Strings of the synthesis cleanup: sequences of characters.               *)
(***************************************************************************)
\* the characters that are not letters, digits or JSON punctuation
BT == "BACKTICK"
DQ == "QUOTE"
SQ == "APOSTROPHE"
NL == "NEWLINE"
SP == "SPACE"

\* what str.strip() and the JSON decoder treat as whitespace
Whitespace == {SP, NL}

\* the literal "```json" of line 183
FenceOpen == <<BT, BT, BT, "j", "s", "o", "n">>

\* the literal "```" of line 186
FenceClose == <<BT, BT, BT>>

\* str.startswith
startswith(s, prefix) ==
    /\ Len(s) >= Len(prefix)
    /\ SubSeq(s, 1, Len(prefix)) = prefix

\* str.endswith
endswith(s, suffix) ==
    /\ Len(s) >= Len(suffix)
    /\ SubSeq(s, Len(s) - Len(suffix) + 1, Len(s)) = suffix

\* str.find(ch): the 0-based index of the first occurrence, -1 when there is none
find(s, ch) ==
    LET at == {i \in 1..Len(s) : s[i] = ch} IN
    IF at = {} THEN -1 ELSE (CHOOSE i \in at : \A j \in at : i <= j) - 1

\* s[start:] for a 0-based start >= 0
slice_from(s, start) == SubSeq(s, start + 1, Len(s))

\* str.strip()
strip(s) ==
    LET keep == {i \in 1..Len(s) : s[i] \notin Whitespace} IN
    IF keep = {} THEN << >>
    ELSE SubSeq(s, CHOOSE i \in keep : \A j \in keep : i <= j,
                   CHOOSE i \in keep : \A j \in keep : i >= j)

\* str.replace(old, new) for one-character old and new
replace(s, old, new) == [i \in 1..Len(s) |-> IF s[i] = old THEN new ELSE s[i]]

(***************************************************************************)
(* json.loads on the JSON texts the alphabet can spell: objects, strings   *)
(* and numbers. A decoded value is kept as its text without the            *)
(* insignificant whitespace.                                               *)
(***************************************************************************)
Digits == {"1"}

Failure == [ok |-> FALSE, pos |-> 0, val |-> << >>]

\* the first position >= i that holds no whitespace (Len(s) + 1 at the end)
skip_ws(s, i) ==
    CHOOSE j \in i..(Len(s) + 1) :
        /\ j = Len(s) + 1 \/ s[j] \notin Whitespace
        /\ \A k \in i..(j - 1) : s[k] \in Whitespace

\* a string: from the quote at i to the next quote; a raw newline inside is a
\* control character, which the decoder rejects
parse_string(s, i) ==
    LET closing == {j \in (i + 1)..Len(s) : s[j] = DQ} IN
    IF closing = {} THEN Failure
    ELSE LET j == CHOOSE x \in closing : \A y \in closing : x <= y IN
         IF \E k \in (i + 1)..(j - 1) : s[k] = NL THEN Failure
         ELSE [ok |-> TRUE, pos |-> j + 1, val |-> SubSeq(s, i, j)]

\* a number: a run of digits
parse_number(s, i) ==
    LET j == CHOOSE x \in i..(Len(s) + 1) :
                 /\ x = Len(s) + 1 \/ s[x] \notin Digits
                 /\ \A k \in i..(x - 1) : s[k] \in Digits IN
    [ok |-> TRUE, pos |-> j, val |-> SubSeq(s, i, j - 1)]

RECURSIVE parse_value(_, _), parse_members(_, _, _)

\* the members of an object, from the position of a key to the closing brace
parse_members(s, i, acc) ==
    IF i > Len(s) \/ s[i] # DQ THEN Failure
    ELSE LET key == parse_string(s, i) IN
         IF ~key.ok THEN Failure
         ELSE LET c == skip_ws(s, key.pos) IN
              IF c > Len(s) \/ s[c] # ":" THEN Failure
              ELSE LET v == parse_value(s, skip_ws(s, c + 1)) IN
                   IF ~v.ok THEN Failure
                   ELSE LET e == skip_ws(s, v.pos)
                            member == acc \o key.val \o <<":">> \o v.val IN
                        IF e > Len(s) THEN Failure
                        ELSE IF s[e] = "}"
                             THEN [ok |-> TRUE, pos |-> e + 1, val |-> member \o <<"}">>]
                        ELSE IF s[e] = ","
                             THEN parse_members(s, skip_ws(s, e + 1), member \o <<",">>)
                        ELSE Failure

parse_value(s, i) ==
    IF i > Len(s) THEN Failure
    ELSE IF s[i] = DQ THEN parse_string(s, i)
    ELSE IF s[i] \in Digits THEN parse_number(s, i)
    ELSE IF s[i] = "{"
         THEN LET j == skip_ws(s, i + 1) IN
              IF j <= Len(s) /\ s[j] = "}"
              THEN [ok |-> TRUE, pos |-> j + 1, val |-> <<"{", "}">>]
              ELSE parse_members(s, j, <<"{">>)
    ELSE Failure

\* json.loads(s): one value between optional whitespace, nothing after it
json_loads(s) ==
    LET v == parse_value(s, skip_ws(s, 1)) IN
    IF v.ok /\ skip_ws(s, v.pos) = Len(s) + 1
    THEN [ok |-> TRUE, val |-> v.val]
    ELSE [ok |-> FALSE, val |-> << >>]

(***************************************************************************)
(* The chat orchestrator: ChatRouter of api/routes/chat.py.                *)
(***************************************************************************)
\* lines 183-192: the cleanup of the responder's answer
cleanup(ans) ==
    LET fenced == startswith(ans, FenceOpen)
        after_first_line == slice_from(ans, find(ans, NL) + 1)
        unfenced == IF endswith(strip(after_first_line), FenceClose)
                    THEN SubSeq(strip(after_first_line), 1,
                                Len(strip(after_first_line)) - 3)
                    ELSE after_first_line
        answer_raw == IF fenced THEN replace(unfenced, NL, SP) ELSE ans IN
    strip(replace(answer_raw, SQ, DQ))

otherVars == <<chainVars, watcherVars, coroutines, running, restVars>>

\* the members of SemanticRouterResponse (lines 146-148)
SemanticRouterResponse == {"RAG_ROUTER", "REQUEST_ATTESTATION", "CONVERSATIONAL"}

\* what the LLM may answer to the semantic-router prompt: a member's value or
\* any other text
RouteReplies == SemanticRouterResponse \cup {"other text"}

\* what route_query may hand back: the two options of RouterConfig or any
\* other string
QueryLabels == {"FACT_CHECK", "NOT_RELEVANT", "CLARIFY"}

\* an external call that raised
RAISED == "<raised>"

Messages == {"Aspirin cures flu.", "What is the capital of France?"}

\* what semantic_search may hand back: no document or some (at most top_k=5)
DocSets == {<< >>, <<"doc">>}

\* well-formed JSON object texts: one member, no member, a text laid out over
\* several lines, a nested object, an apostrophe inside a string
JsonA1 == <<"{", DQ, "a", DQ, ":", "1", "}">>

JsonTexts ==
    { JsonA1,
      <<"{", "}">>,
      <<"{", NL, SP, DQ, "a", DQ, ":", SP, "1", NL, "}">>,
      <<"{", DQ, "a", DQ, ":", "{", DQ, "a", DQ, ":", "1", "}", "}">>,
      <<"{", DQ, "a", DQ, ":", DQ, "a", SQ, "a", DQ, "}">> }

\* a text wrapped in a triple-backtick json fence, each fence on its own line
Fenced(J) == FenceOpen \o <<NL>> \o J \o <<NL>> \o FenceClose

\* answers of the responder LLM: JSON, fenced JSON, single-quoted JSON, prose,
\* a fence without a line break
Answers ==
    JsonTexts
    \cup {Fenced(J) : J \in JsonTexts}
    \cup { <<"{", SQ, "a", SQ, ":", SP, "1", "}">>,
           <<"a", SP, "a">>,
           FenceOpen \o JsonA1 \o FenceClose }

NA == <<"N", "/", "A">>

NoResult == [keys |-> {}, classification |-> "none", response |-> << >>,
             response_json |-> << >>]

NoReply == [status |-> 0, content |-> NoResult, detail |-> "none"]

InitChat ==
    /\ chatPc = "idle"
    /\ message = "none"
    /\ routeReply = "none"
    /\ route = "none"
    /\ classification = "none"
    /\ retrieved_docs = << >>
    /\ answer = << >>
    /\ result = NoResult
    /\ error = "none"
    /\ stages = << >>
    /\ reply = NoReply
    /\ requests = 0
    /\ attestation_requested = FALSE

\* POST / with a validated ChatMessage: chat() starts (lines 82-83)
ReceiveRequest ==
    /\ chatPc = "idle"
    /\ requests < MaxRequests
    /\ message' \in Messages
    /\ chatPc' = "get_semantic_route"
    /\ routeReply' = "none"
    /\ route' = "none"
    /\ classification' = "none"
    /\ retrieved_docs' = << >>
    /\ answer' = << >>
    /\ result' = NoResult
    /\ error' = "none"
    /\ stages' = << >>
    /\ reply' = NoReply
    /\ UNCHANGED <<requests, attestation_requested, otherVars>>

\* lines 120-130: SemanticRouterResponse(route_response.text) raises ValueError
\* for a text that is no member's value; that and any exception of the call
\* end in the except clause, which returns CONVERSATIONAL
get_semantic_route_NoFallback(llm_reply) == llm_reply

get_semantic_route(llm_reply) ==
    IF llm_reply \in SemanticRouterResponse THEN llm_reply ELSE "CONVERSATIONAL"

\* line 94
GetSemanticRoute ==
    /\ chatPc = "get_semantic_route"
    /\ \E llm_reply \in RouteReplies \cup {RAISED} :
         /\ routeReply' = llm_reply
         /\ route' = get_semantic_route(llm_reply)
    /\ stages' = Append(stages, "semantic_router")
    /\ chatPc' = "route_message"
    /\ UNCHANGED <<message, classification, retrieved_docs, answer, result, error, reply,
                   requests, attestation_requested, otherVars>>

\* lines 145-150: handlers.get(SemanticRouterResponse.RAG_ROUTER), whatever the
\* route is
route_message_ByRoute(r) ==
    CASE r = "REQUEST_ATTESTATION" -> "handle_attestation"
      [] r = "CONVERSATIONAL" -> "handle_conversation"
      [] OTHER -> "handle_rag_pipeline"

route_message(r) == "handle_rag_pipeline"

\* lines 96, 150-154: the handler is awaited; handle_attestation (211-224) and
\* handle_conversation (226-237) are one LLM call each
RouteMessage ==
    /\ chatPc = "route_message"
    /\ IF route_message(route) = "handle_rag_pipeline"
       THEN /\ chatPc' = "classify"
            /\ UNCHANGED <<result, error, attestation_requested>>
       ELSE \/ /\ chatPc' = "returned"
               /\ result' = [NoResult EXCEPT !.keys = {"response"}, !.response = <<"a">>]
               /\ attestation_requested' =
                      (attestation_requested \/ route_message(route) = "handle_attestation")
               /\ UNCHANGED error
            \/ /\ chatPc' = "failed"
               /\ error' = "ai"
               /\ UNCHANGED <<result, attestation_requested>>
    /\ UNCHANGED <<message, routeReply, route, classification, retrieved_docs, answer,
                   stages, reply, requests, otherVars>>

\* line 173: `if classification == "FACT_CHECK"`
IsFactCheck_Always(label) == TRUE

IsFactCheck(label) == label = "FACT_CHECK"

\* lines 197-200
static_responses_All == [l \in QueryLabels |-> NA]

static_responses == [l \in {"NOT_RELEVANT"} |-> NA]

\* lines 167-173 and 196-209: the classification call is not in a try block;
\* a label that is neither FACT_CHECK nor a key of static_responses raises
\* ValueError(classification)
Classify ==
    /\ chatPc = "classify"
    /\ stages' = Append(stages, "query_router")
    /\ \E label \in QueryLabels \cup {RAISED} :
         /\ classification' = label
         /\ IF label = RAISED
            THEN chatPc' = "failed" /\ error' = "route_query" /\ UNCHANGED result
            ELSE IF IsFactCheck(label)
            THEN chatPc' = "retrieve" /\ UNCHANGED <<result, error>>
            ELSE IF label \in DOMAIN static_responses
            THEN /\ chatPc' = "returned"
                 /\ result' = [NoResult EXCEPT !.keys = {"classification", "response"},
                                               !.classification = label,
                                               !.response = static_responses[label]]
                 /\ UNCHANGED error
            ELSE chatPc' = "failed" /\ error' = label /\ UNCHANGED result
    /\ UNCHANGED <<message, routeReply, route, retrieved_docs, answer, reply, requests,
                   attestation_requested, otherVars>>

\* line 175: retrieved_docs = self.retriever.semantic_search(message, top_k=5)
Retrieve ==
    /\ chatPc = "retrieve"
    /\ stages' = Append(stages, "retriever")
    /\ \/ /\ retrieved_docs' \in DocSets
          /\ chatPc' = "respond"
          /\ UNCHANGED error
       \/ /\ chatPc' = "failed"
          /\ error' = "semantic_search"
          /\ UNCHANGED retrieved_docs
    /\ UNCHANGED <<message, routeReply, route, classification, answer, result, reply,
                   requests, attestation_requested, otherVars>>

\* line 194: the dict of the FACT_CHECK branch
fact_check_result_NoJson(label, ans, decoded) ==
    [keys |-> {"classification", "response"},
     classification |-> label,
     response |-> ans,
     response_json |-> << >>]

fact_check_result(label, ans, decoded) ==
    [keys |-> {"classification", "response", "response_json"},
     classification |-> label,
     response |-> ans,
     response_json |-> decoded]

\* lines 180-194: the responder is called with whatever was retrieved, its
\* answer is cleaned up and decoded; a decoding error is not caught here
Respond ==
    /\ chatPc = "respond"
    /\ stages' = Append(stages, "responder")
    /\ \/ \E a \in Answers :
            /\ answer' = a
            /\ IF json_loads(cleanup(a)).ok
               THEN /\ chatPc' = "returned"
                    /\ result' = fact_check_result(classification, a,
                                                    json_loads(cleanup(a)).val)
                    /\ UNCHANGED error
               ELSE chatPc' = "failed" /\ error' = "JSONDecodeError" /\ UNCHANGED result
       \/ /\ chatPc' = "failed"
          /\ error' = "generate_response"
          /\ UNCHANGED <<answer, result>>
    /\ UNCHANGED <<message, routeReply, route, classification, retrieved_docs, reply,
                   requests, attestation_requested, otherVars>>

\* line 103: HTTPException(status_code=500, detail=str(e))
http_exception_Generic(e) ==
    [status |-> 500, content |-> NoResult, detail |-> "Internal Server Error"]

http_exception(e) == [status |-> 500, content |-> NoResult, detail |-> e]

\* lines 97-100: msg["classification"] is read (a dict without the key raises
\* KeyError, caught on line 101), the response of a FACT_CHECK dict is passed
\* through str(), which leaves a string as it is, and the dict is sent as the
\* JSON response
ReplyOk ==
    /\ chatPc = "returned"
    /\ IF "classification" \in result.keys
       THEN /\ reply' = [status |-> 200, content |-> result, detail |-> "none"]
            /\ UNCHANGED error
       ELSE /\ reply' = http_exception("KeyError")
            /\ error' = "KeyError"
    /\ requests' = requests + 1
    /\ chatPc' = "idle"
    /\ UNCHANGED <<message, routeReply, route, classification, retrieved_docs, answer,
                   result, stages, attestation_requested, otherVars>>

\* lines 101-103: any exception that reaches chat() is logged and raised again
\* as the HTTP error
ReplyError ==
    /\ chatPc = "failed"
    /\ reply' = http_exception(error)
    /\ requests' = requests + 1
    /\ chatPc' = "idle"
    /\ UNCHANGED <<message, routeReply, route, classification, retrieved_docs, answer,
                   result, error, stages, attestation_requested, otherVars>>

NextChat ==
    \/ ReceiveRequest
    \/ GetSemanticRoute
    \/ RouteMessage
    \/ Classify
    \/ Retrieve
    \/ Respond
    \/ ReplyOk
    \/ ReplyError

(***************************************************************************)
(* generate_collection of retriever/qdrant_collection.py, called once per  *)
(* model by setup_retriever at startup. A row of the table is what decides *)
(* its way through the loop: whether its content is text, and what         *)
(* embed_content does with it.                                             *)
(***************************************************************************)
\* rows of a table that may be of any kind
MaxRows == 3

\* length of a table long enough to reach the loop's limit; its rows after
\* the first MaxRows are text that embeds
LongTable == 200

\* line 61: `if idx >= 200`
DebugLimit == 200

\* line 32: `return num_points > 150`
PointsThreshold == 150

\* the columns of the tables download_pubmed.py and download_covid.py write
Columns == {"file_name", "meta_data", "content", "last_updated"}

\* text that embeds; content that is no str (NaN of an empty cell); text whose
\* embedding raises InvalidArgument for the payload size, another
\* InvalidArgument, or any other exception; text whose embedding succeeds in
\* one call and raises in another (a failure of the embedding service)
RowKinds ==
    {"text", "not_text", "size_limit", "invalid_argument", "other_exception", "transient"}

Heads == UNION {[1..k -> RowKinds] : k \in 0..MaxRows}

Tables ==
    {[len |-> Len(h), head |-> h] : h \in Heads}
    \cup {[len |-> LongTable, head |-> h] : h \in [1..MaxRows -> RowKinds]}

\* row i of df_docs (1-based, as enumerate(..., start=1) counts)
Row(i) == IF i <= Len(df_docs.head) THEN df_docs.head[i] ELSE "text"

NoCollection == [exists |-> FALSE, points |-> {}]

\* what Qdrant may hold at startup: no collection, or one holding points of an
\* earlier run
InitialCollections ==
    {NoCollection}
    \cup {[exists |-> TRUE, points |-> 1..n] :
             n \in {0, PointsThreshold, PointsThreshold + 1}}

Range(seq) == {seq[i] : i \in 1..Len(seq)}

\* the state of the component before the first call, the table and the
\* collection left open
IdleCollection ==
    /\ gcPc = "idle"
    /\ gcCalls = 0
    /\ idx = 0
    /\ points = << >>
    /\ embedded = {}
    /\ gcLog = {}
    /\ recreated = FALSE
    /\ upserted = FALSE
    /\ collAtCall = collection

InitCollection ==
    /\ df_docs \in Tables
    /\ collection \in InitialCollections
    /\ IdleCollection

\* lines 26-34: get_collection raises UnexpectedResponse for a missing
\* collection
collection_exists_AnyPoints(coll) == coll.exists

collection_exists(coll) ==
    coll.exists /\ Cardinality(coll.points) > PointsThreshold

\* lines 42-56, and lines 14-25: recreate_collection drops the collection and
\* creates it empty
GC_Call ==
    /\ gcPc = "idle"
    /\ gcCalls < Len(MODELS)
    /\ idx' = 0
    /\ points' = << >>
    /\ embedded' = {}
    /\ gcLog' = {}
    /\ upserted' = FALSE
    /\ collAtCall' = collection
    /\ IF collection_exists(collection)
       THEN /\ gcPc' = "returned"
            /\ recreated' = FALSE
            /\ UNCHANGED collection
       ELSE /\ gcPc' = "loop"
            /\ recreated' = TRUE
            /\ collection' = [exists |-> TRUE, points |-> {}]
    /\ UNCHANGED <<df_docs, gcCalls, chainVars, watcherVars, coroutines, running, chatVars, fpVars>>

\* line 67: isinstance(content, str)
content_is_str_Unchecked(kind) == TRUE

content_is_str(kind) == kind # "not_text"

\* lines 75-80: what embed_content may do with the content: return a vector
\* ("ok") or raise
embed_content(kind) ==
    IF kind \in {"size_limit", "invalid_argument", "other_exception"} THEN {kind}
    ELSE IF kind = "transient" THEN {"ok", "other_exception"}
    ELSE {"ok"}

\* lines 84-102: the message each except branch logs and the key it reads the
\* row's file name with
LogMessage(outcome) ==
    CASE outcome = "size_limit" -> "Skipping document due to size limit."
      [] outcome = "invalid_argument" -> "Error encoding document (InvalidArgument)."
      [] OTHER -> "Error encoding document (general)."

LogKey(outcome) == IF outcome = "invalid_argument" THEN "Filename" ELSE "file_name"

\* lines 57-115: one pass of the loop body. row[key] raises KeyError for a key
\* that is no column; raised inside an except clause, it leaves the function
GC_Row ==
    /\ gcPc = "loop"
    /\ idx < df_docs.len
    /\ idx' = idx + 1
    /\ \E outcome \in embed_content(Row(idx + 1)) :
       LET kind == Row(idx + 1) IN
       IF idx + 1 >= DebugLimit
       THEN /\ gcPc' = "upsert"
            /\ UNCHANGED <<points, embedded, gcLog>>
       ELSE IF ~content_is_str(kind)
       THEN /\ gcLog' = gcLog \cup
                    {<<idx + 1, "Skipping document due to missing or invalid content.">>}
            /\ UNCHANGED <<gcPc, points, embedded>>
       ELSE /\ embedded' = embedded \cup {idx + 1}
            /\ IF outcome = "ok"
               THEN /\ points' = Append(points, idx + 1)
                    /\ UNCHANGED <<gcPc, gcLog>>
               ELSE IF LogKey(outcome) \in Columns
               THEN /\ gcLog' = gcLog \cup {<<idx + 1, LogMessage(outcome)>>}
                    /\ UNCHANGED <<gcPc, points>>
               ELSE /\ gcPc' = "crashed"
                    /\ UNCHANGED <<points, gcLog>>
    /\ UNCHANGED <<df_docs, collAtCall, collection, gcCalls, recreated, upserted,
                   chainVars, watcherVars, coroutines, running, chatVars, fpVars>>

\* line 57: the table has no more rows
GC_EndRows ==
    /\ gcPc = "loop"
    /\ idx = df_docs.len
    /\ gcPc' = "upsert"
    /\ UNCHANGED <<df_docs, collAtCall, collection, gcCalls, idx, points, embedded, gcLog, recreated,
                   upserted, chainVars, watcherVars, coroutines, running, chatVars, fpVars>>

\* lines 117-128: a point is stored under its id
GC_Upsert ==
    /\ gcPc = "upsert"
    /\ IF points # << >>
       THEN /\ collection' = [collection EXCEPT !.points = @ \cup Range(points)]
            /\ upserted' = TRUE
            /\ UNCHANGED gcLog
       ELSE /\ gcLog' = gcLog \cup {<<0, "No valid documents found to insert.">>}
            /\ UNCHANGED <<collection, upserted>>
    /\ gcPc' = "returned"
    /\ UNCHANGED <<df_docs, collAtCall, gcCalls, idx, points, embedded, recreated,
                   chainVars, watcherVars, coroutines, running, chatVars, fpVars>>

\* main_multiple_models.py lines 64-74 and 123-130: setup_retriever returns and
\* the loop over MODELS goes on to the next model
GC_Return ==
    /\ gcPc = "returned"
    /\ gcPc' = "idle"
    /\ gcCalls' = gcCalls + 1
    /\ UNCHANGED <<df_docs, collAtCall, collection, idx, points, embedded, gcLog, recreated, upserted,
                   chainVars, watcherVars, coroutines, running, chatVars, fpVars>>

NextCollection ==
    \/ GC_Call
    \/ GC_Row
    \/ GC_EndRows
    \/ GC_Upsert
    \/ GC_Return

(***************************************************************************)
(* FlareProvider of playground_transactions.py. A transaction is known by  *)
(* the number it was added under (0: one that never was in the queue).     *)
(***************************************************************************)
\* transactions added to the queue
MaxTxs == 3

\* calls made on the provider
MaxProviderCalls == 5

None == "None"

\* what `not x` is true of
Falsy(x) == x \in {None, ""}

Addresses == {"0x4eF1"}

Keys == {"465b"}

Before ==
    [tx_queue |-> tx_queue, address |-> address, private_key |-> private_key,
     sent |-> fpSent, signed |-> fpSigned]

\* lines 53-55: __init__
InitProvider ==
    /\ address = None
    /\ private_key = None
    /\ tx_queue = << >>
    /\ fpSigned = 0
    /\ fpSent = << >>
    /\ fpAdded = 0
    /\ fpPopped = {}
    /\ fpResetAt = 0
    /\ fpSinceReset = FALSE
    /\ fpLast = [op |-> "__init__", outcome |-> "ok", before |-> Before]
    /\ fpOps = 0

fpOthers == <<chainVars, watcherVars, coroutines, running, chatVars, collVars>>

\* lines 59-66
reset ==
    /\ fpOps < MaxProviderCalls
    /\ address' = None
    /\ private_key' = None
    /\ tx_queue' = << >>
    /\ fpResetAt' = fpAdded
    /\ fpSinceReset' = TRUE
    /\ fpLast' = [op |-> "reset", outcome |-> "ok", before |-> Before]
    /\ fpOps' = fpOps + 1
    /\ UNCHANGED <<fpSigned, fpSent, fpAdded, fpPopped, fpOthers>>

\* lines 68-78
add_tx_to_queue ==
    /\ fpOps < MaxProviderCalls
    /\ fpAdded < MaxTxs
    /\ fpAdded' = fpAdded + 1
    /\ tx_queue' = Append(tx_queue, fpAdded + 1)
    /\ fpLast' = [op |-> "add_tx_to_queue", outcome |-> "ok", before |-> Before]
    /\ fpOps' = fpOps + 1
    /\ UNCHANGED <<address, private_key, fpSigned, fpSent, fpPopped, fpResetAt,
                   fpSinceReset, fpOthers>>

\* lines 98-111
generate_account ==
    /\ fpOps < MaxProviderCalls
    /\ private_key' \in Keys
    /\ address' \in Addresses
    /\ fpSinceReset' = FALSE
    /\ fpLast' = [op |-> "generate_account", outcome |-> "ok", before |-> Before]
    /\ fpOps' = fpOps + 1
    /\ UNCHANGED <<tx_queue, fpSigned, fpSent, fpAdded, fpPopped, fpResetAt, fpOthers>>

\* lines 186-187: the attributes are assigned from outside, one at a time
SetAttribute ==
    /\ fpOps < MaxProviderCalls
    /\ \/ address' \in Addresses /\ UNCHANGED private_key
       \/ private_key' \in Keys \cup {""} /\ UNCHANGED address
    /\ fpSinceReset' = FALSE
    /\ fpLast' = [op |-> "setattr", outcome |-> "ok", before |-> Before]
    /\ fpOps' = fpOps + 1
    /\ UNCHANGED <<tx_queue, fpSigned, fpSent, fpAdded, fpPopped, fpResetAt, fpOthers>>

\* line 126: `not self.private_key or not self.address`
account_unset_KeyOnly(key, addr) == Falsy(key)

account_unset(key, addr) == Falsy(key) \/ Falsy(addr)

\* what the node and the signer may do with a call
NetOutcomes == {"ok", "sign_raises", "send_raises", "receipt_raises"}

\* lines 126-135: sign_and_send_transaction(tx) when the network does `net`:
\* its outcome, the calls of sign_transaction and the transactions sent
sign_and_send_transaction(tx, net) ==
    IF account_unset(private_key, address)
    THEN [outcome |-> "ValueError: Account not initialized", signed |-> 0, sent |-> << >>]
    ELSE IF net = "sign_raises"
    THEN [outcome |-> "raised", signed |-> 0, sent |-> << >>]
    ELSE IF net = "send_raises"
    THEN [outcome |-> "raised", signed |-> 1, sent |-> << >>]
    ELSE [outcome |-> IF net = "ok" THEN "ok" ELSE "raised",
          signed |-> 1,
          sent |-> <<[tx |-> tx, key |-> private_key]>>]

\* a call of sign_and_send_transaction from outside, with a transaction that
\* is not in the queue
SignAndSend ==
    /\ fpOps < MaxProviderCalls
    /\ \E net \in NetOutcomes :
         LET r == sign_and_send_transaction(0, net) IN
         /\ fpSigned' = fpSigned + r.signed
         /\ fpSent' = fpSent \o r.sent
         /\ fpLast' = [op |-> "sign_and_send_transaction", outcome |-> r.outcome,
                       before |-> Before]
    /\ fpOps' = fpOps + 1
    /\ UNCHANGED <<address, private_key, tx_queue, fpAdded, fpPopped, fpResetAt,
                   fpSinceReset, fpOthers>>

\* line 93: list.pop()
pop_First(q) == Tail(q)

pop(q) == SubSeq(q, 1, Len(q) - 1)

\* lines 80-96
send_tx_in_queue ==
    /\ fpOps < MaxProviderCalls
    /\ IF tx_queue # << >>
       THEN \E net \in NetOutcomes :
              LET r == sign_and_send_transaction(tx_queue[Len(tx_queue)], net) IN
              /\ fpSigned' = fpSigned + r.signed
              /\ fpSent' = fpSent \o r.sent
              /\ fpLast' = [op |-> "send_tx_in_queue", outcome |-> r.outcome,
                            before |-> Before]
              /\ IF r.outcome = "ok"
                 THEN /\ tx_queue' = pop(tx_queue)
                      /\ fpPopped' = fpPopped \cup {tx_queue[Len(tx_queue)]}
                 ELSE UNCHANGED <<tx_queue, fpPopped>>
       ELSE /\ fpLast' = [op |-> "send_tx_in_queue",
                          outcome |-> "ValueError: Unable to find confirmed tx",
                          before |-> Before]
            /\ UNCHANGED <<tx_queue, fpSigned, fpSent, fpPopped>>
    /\ fpOps' = fpOps + 1
    /\ UNCHANGED <<address, private_key, fpAdded, fpResetAt, fpSinceReset, fpOthers>>

NextProvider ==
    \/ reset
    \/ add_tx_to_queue
    \/ generate_account
    \/ SetAttribute
    \/ SignAndSend
    \/ send_tx_in_queue

(***************************************************************************)
(* The specifications.                                                     *)
(***************************************************************************)
\* the components a specification does not run stay as they start
InitRest ==
    /\ df_docs = [len |-> 0, head |-> << >>]
    /\ collection = NoCollection
    /\ IdleCollection
    /\ InitProvider

InitW ==
    /\ InitChain /\ InitWatcher /\ coroutines = << >> /\ running = 0 /\ InitChat
    /\ InitRest

\* start() is synchronous and starts no event loop: nothing runs a coroutine
NextWatcher ==
    \/ Poll
    \/ SkipLog
    \/ TakeLog
    \/ Dispatch
    \/ EndModels
    \/ EndLogs
    \/ Sleep
    \/ ChainStep

SpecWatcher == InitW /\ [][NextWatcher]_vars

\* process_text on its own: an event loop runs each coroutine to its end
NextProcessText ==
    \/ RunProcessText
    \/ PT_Nonce
    \/ PT_Query
    \/ PT_Dumps
    \/ PT_Build
    \/ PT_Sign
    \/ PT_Send
    \/ PT_Exit
    \/ MineTx

SpecProcessText == InitW /\ [][NextProcessText]_vars

\* the chat endpoint
SpecChat == InitW /\ [][NextChat]_vars

\* the startup calls of generate_collection
InitC ==
    /\ InitChain /\ InitWatcher /\ coroutines = << >> /\ running = 0 /\ InitChat
    /\ InitCollection
    /\ InitProvider

SpecCollection == InitC /\ [][NextCollection]_vars

\* calls on one FlareProvider, in any order
SpecProvider == InitW /\ [][NextProvider]_vars

(***************************************************************************)
(* Properties of the chain watcher.                                        *)
(***************************************************************************)
CoroutinesFor(rid, m) ==
    {k \in 1..Len(coroutines) :
        coroutines[k].request_id = rid /\ coroutines[k].provider = m}

SentFor(rid, m) ==
    {i \in 1..Len(sentTxs) :
        sentTxs[i].requestId = rid /\ sentTxs[i].from = account_addresses[m]}

\* C1: within one run every request id passes the dedup check of the poll
\* loop at most once, hence in at most one iteration, whatever the windows
\* return.
C1_DispatchedInAtMostOneIteration ==
    \A i, j \in 1..Len(dispatched) :
        dispatched[i][2] = dispatched[j][2] => i = j

\* an event is returned again by a later, overlapping window and has been skipped
C1_Witness ==
    /\ pc = "for_logs"
    /\ logIdx > 1
    /\ \E i \in 1..Len(dispatched) :
         /\ dispatched[i][2] = logs[logIdx - 1].requestId
         /\ dispatched[i][1] < polls

\* C2: when the watcher reaches its sleep, every request id taken so far has
\* had its fact-check run for every model (the coroutine of process_text ran
\* to its end), and a transaction was sent where the fact-check succeeded.
C2_FactCheckRunBeforeSleep ==
    pc = "sleep" =>
        \A i \in 1..Len(dispatched), m \in ModelSet :
            \E k \in CoroutinesFor(dispatched[i][2], m) :
                /\ Finished(coroutines[k])
                /\ coroutines[k].at = "done" => SentFor(dispatched[i][2], m) # {}

\* C3: for each (request id, model account) pair process_text is called at
\* most once in a run and at most one submitVerification transaction is sent.
C3_AtMostOneSubmissionPerPair ==
    \A rid \in RequestIds, m \in ModelSet :
        /\ Cardinality(CoroutinesFor(rid, m)) <= 1
        /\ Cardinality(SentFor(rid, m)) <= Cardinality(CoroutinesFor(rid, m))

\* a pair was dispatched in an earlier iteration and its event is seen again
C3_Witness ==
    /\ pc = "sleep"
    /\ \E e \in 1..Len(logs), i \in 1..Len(dispatched) :
         /\ dispatched[i] = <<polls - 1, logs[e].requestId>>
         /\ \A m \in ModelSet : Cardinality(CoroutinesFor(logs[e].requestId, m)) = 1

\* C4: at most one fact-check-plus-submission is in flight, and none is when
\* the watcher sleeps or polls: the processing of a dispatched event has
\* completed before the next dispatch and before the next poll.
C4_OneInFlight ==
    LET open == {k \in 1..Len(coroutines) : ~Finished(coroutines[k])} IN
    /\ Cardinality(open) <= 1
    /\ pc \in {"sleep", "poll"} => open = {}

C18_PairUsesOwnRouterContractKey ==
    /\ \A k \in 1..Len(coroutines) :
           /\ coroutines[k].contract = contracts[coroutines[k].provider]
           /\ coroutines[k].chat_router = routers[coroutines[k].provider]
    /\ \A k \in 1..Len(coroutines) :
           coroutines[k].provider = MODELS[((k - 1) % Len(MODELS)) + 1]

\* an event no later poll can return: it lies before the trailing window of
\* the present head, and it is not waiting in the list being iterated
OutOfReach(e) ==
    /\ e.blockNumber < blockNumber - Window
    /\ ~(/\ pc \in {"for_logs", "for_models"}
         /\ \E i \in logIdx..Len(logs) : logs[i] = e)

\* C19: every event emitted while the watcher runs is returned by the window
\* of some poll and dispatched, however block production interleaves with
\* the watcher's steps: no event gets out of reach of the polls with its id
\* not dispatched.
C19_EveryEventDispatched ==
    \A k \in 1..Len(chainLogs) :
        OutOfReach(chainLogs[k]) => chainLogs[k].requestId \in processed_request_ids

C7_LabelsFromEnumeration ==
    /\ route # "none" => route \in SemanticRouterResponse
    /\ chatPc = "returned" =>
           /\ "classification" \in result.keys
           /\ result.classification \in {"FACT_CHECK", "NOT_RELEVANT"}
    /\ reply.status = 200 =>
           reply.content.classification \in {"FACT_CHECK", "NOT_RELEVANT"}

\* the LLM's route reply was no member's value, and the pipeline returned a
\* classified result
C7_Witness ==
    /\ routeReply = "other text"
    /\ route = "CONVERSATIONAL"
    /\ reply.status = 200
    /\ reply.content.classification = "FACT_CHECK"

\* C8: a classification call that raises (the semantic-route call or the
\* query-classification call) never fails the request: a default label is
\* used instead.
C8_ClassificationFailureFallsBack ==
    /\ routeReply = RAISED => route \in SemanticRouterResponse
    /\ classification = RAISED =>
           /\ chatPc # "failed"
           /\ reply.status # 500

\* C9: the stages are called in the order semantic router, query router,
\* retriever, responder; the retriever and the responder are called only for
\* a query classified FACT_CHECK, the responder only after the retriever has
\* returned.
C9_StageOrder ==
    /\ \E n \in 0..4 :
         stages = SubSeq(<<"semantic_router", "query_router", "retriever", "responder">>, 1, n)
    /\ Len(stages) >= 3 => classification = "FACT_CHECK"
    /\ Len(stages) = 4 => error # "semantic_search"
    /\ classification = "NOT_RELEVANT" => Len(stages) <= 2

\* a FACT_CHECK request went through all four stages, in order
C9_Witness ==
    /\ stages = <<"semantic_router", "query_router", "retriever", "responder">>
    /\ reply.status = 200
    /\ requests = 1

\* C10: when retrieval returned no document, handle_rag_pipeline returns
\* NOT_RELEVANT with the static response N/A, and the request does not fail.
C10_EmptyRetrievalDegrades ==
    (Len(stages) >= 3 /\ retrieved_docs = << >> /\ chatPc \in {"returned", "failed"}) =>
        /\ chatPc = "returned"
        /\ result.classification = "NOT_RELEVANT"
        /\ result.response = NA

\* an exception was raised while the request at hand was processed: inside
\* get_semantic_route, or anywhere else on the way to the response
ExceptionRaised == routeReply = RAISED \/ error # "none"

\* C11 (as stated): any exception raised while a POST / message is processed
\* fails the request with an HTTP 500 whose detail is the exception text, and
\* no success response is returned for it.
C11_AnyExceptionFails ==
    ExceptionRaised =>
        /\ reply.status # 200
        /\ (chatPc = "idle" => reply.status = 500 /\ reply.detail = error)

\* C11 (amended): any exception that is not caught inside get_semantic_route
\* fails the request with an HTTP 500 whose detail is the exception text, and
\* no success response is returned for it; a JSON decoding failure of the
\* answer and a label other than FACT_CHECK and NOT_RELEVANT are such
\* exceptions.
C11_PropagatedExceptionFails ==
    /\ error # "none" =>
           /\ chatPc \in {"failed", "idle"}
           /\ reply.status # 200
           /\ (chatPc = "idle" => reply = [status |-> 500, content |-> NoResult,
                                            detail |-> error])
    /\ reply.status = 500 => error # "none"
    /\ (answer # << >> /\ ~json_loads(cleanup(answer)).ok) => error = "JSONDecodeError"
    /\ classification \notin {"none", "FACT_CHECK", "NOT_RELEVANT", RAISED} =>
           error = classification

\* the answer of the responder did not decode, and the request was answered
\* with the HTTP error
C11_Witness ==
    /\ chatPc = "idle"
    /\ answer = <<"a", SP, "a">>
    /\ error = "JSONDecodeError"
    /\ reply.status = 500

\* C12: every success response has the keys classification and response, both
\* strings; it has response_json exactly when the classification is
\* FACT_CHECK; for NOT_RELEVANT the response is N/A.
C12_SuccessResponseShape ==
    reply.status = 200 =>
        /\ {"classification", "response"} \subseteq reply.content.keys
        /\ reply.content.classification \in STRING
        /\ reply.content.response \in Seq(STRING)
        /\ "response_json" \in reply.content.keys
               <=> reply.content.classification = "FACT_CHECK"
        /\ reply.content.classification = "NOT_RELEVANT" =>
               /\ reply.content.response = NA
               /\ reply.content.keys = {"classification", "response"}

\* a FACT_CHECK request was answered with the object decoded from a fenced
\* answer
C12_Witness ==
    /\ reply.status = 200
    /\ reply.content.classification = "FACT_CHECK"
    /\ reply.content.response = Fenced(JsonA1)
    /\ reply.content.response_json = JsonA1
    /\ "response_json" \in reply.content.keys

\* C13: for every well-formed JSON object text J, the answer J wrapped in a
\* triple-backtick json fence is decoded, into the object json.loads gives
\* for J itself.
C13_FencedDecodesLikeUnfenced ==
    \A J \in JsonTexts :
        (json_loads(J).ok /\ answer = Fenced(J)) =>
            /\ error # "JSONDecodeError"
            /\ chatPc \in {"returned", "idle"}
            /\ result.response_json = json_loads(J).val

\* what a request answers when the query is classified `label` and the
\* responder gives `ans`, whatever the semantic route was
RagResult(label, ans) ==
    IF label = "FACT_CHECK"
    THEN [keys |-> {"classification", "response", "response_json"},
          classification |-> label, response |-> ans,
          response_json |-> json_loads(cleanup(ans)).val]
    ELSE [keys |-> {"classification", "response"},
          classification |-> label, response |-> NA, response_json |-> << >>]

Considered == {i \in 1..idx : i < DebugLimit}

\* C14: a row whose content is no string gets no embedding call and no point,
\* only a warning, and the loop goes on with the rows after it: the call does
\* not fail at such a row.
C14_NonTextRowSkipped ==
    \A i \in Considered :
        Row(i) = "not_text" =>
            /\ i \notin embedded
            /\ i \notin Range(points)
            /\ <<i, "Skipping document due to missing or invalid content.">> \in gcLog
            /\ (i = idx => gcPc # "crashed")
            /\ (i = idx /\ recreated /\ gcPc # "idle" /\ gcPc # "returned"
                    => gcPc \in {"loop", "upsert"})

\* the first row was no text, the second was embedded and upserted
C14_Witness ==
    /\ df_docs.head = <<"not_text", "text">>
    /\ df_docs.len = 2
    /\ gcPc = "returned"
    /\ embedded = {2}
    /\ points = <<2>>
    /\ collection.points = {2}

\* C15: an embedding failure of any exception type is logged and skips only
\* its row: the call does not fail, every failed row is logged, and the call
\* upserts exactly the considered text rows whose embedding succeeded.
C15_EmbeddingFailureSkipsOneRow ==
    /\ gcPc # "crashed"
    /\ \A i \in Considered :
           /\ Row(i) \in {"size_limit", "invalid_argument", "other_exception"} =>
                  /\ i \notin Range(points)
                  /\ \E e \in gcLog : e[1] = i
           /\ Row(i) = "transient" =>
                  (i \in Range(points)) # (\E e \in gcLog : e[1] = i)
    /\ (gcPc = "returned" /\ recreated) =>
           /\ idx = df_docs.len \/ idx = DebugLimit
           /\ Range(points) = {i \in Considered : /\ Row(i) \in {"text", "transient"}
                                                   /\ ~\E e \in gcLog : e[1] = i}
           /\ points # << >> => (upserted /\ collection.points = Range(points))

\* C22: a call that finds the collection with more than 150 points makes no
\* recreate, no embedding call and no upsert, and leaves the collection as it
\* was; a call that finds it missing or with 150 points or fewer recreates
\* it, which leaves none of the points it had, before it upserts any point.
C22_SkipOrRecreate ==
    gcPc # "idle" =>
        /\ recreated <=> ~(collAtCall.exists /\ Cardinality(collAtCall.points) > 150)
        /\ ~recreated =>
               /\ embedded = {}
               /\ ~upserted
               /\ collection = collAtCall
               /\ gcPc = "returned"
        /\ recreated =>
               /\ collection.exists
               /\ ~upserted => collection.points = {}
               /\ upserted => collection.points = Range(points)

\* the collection held 150 points of an earlier run: the call recreated it
\* and upserted the one row of the table
C22_Witness ==
    /\ gcCalls = 0
    /\ collAtCall.points = 1..150
    /\ df_docs.len = 1
    /\ recreated
    /\ upserted
    /\ collection.points = {1}

\* C23: once the first call of generate_collection has populated the
\* collection, the second and the third call leave its set of points as
\* they found it.
C23_LaterCallsKeepPoints ==
    (gcCalls >= 1 /\ gcPc = "returned" /\ collAtCall.points # {}) =>
        collection.points = collAtCall.points

(***************************************************************************)
(* Properties of FlareProvider.                                            *)
(***************************************************************************)
\* the numbers of a set, smallest first
RECURSIVE Ascending(_)
Ascending(S) ==
    IF S = {} THEN << >>
    ELSE LET m == CHOOSE x \in S : \A y \in S : x <= y IN <<m>> \o Ascending(S \ {m})

\* C16: send_tx_in_queue sends the transaction added last and removes that
\* element only, the earlier ones keeping their order; on an empty queue it
\* raises ValueError, sends nothing and changes nothing; the queue holds the
\* transactions added (since the last reset) and not yet sent, in insertion
\* order.
C16_QueueSendsLastAdded ==
    /\ fpLast.op = "send_tx_in_queue" =>
           LET q == fpLast.before.tx_queue IN
           /\ q = << >> =>
                  /\ fpLast.outcome = "ValueError: Unable to find confirmed tx"
                  /\ Before = fpLast.before
           /\ fpLast.outcome = "ok" =>
                  /\ q # << >>
                  /\ fpSent = fpLast.before.sent
                                  \o <<[tx |-> q[Len(q)], key |-> private_key]>>
                  /\ tx_queue = SubSeq(q, 1, Len(q) - 1)
           /\ fpLast.outcome \notin {"ok", "ValueError: Unable to find confirmed tx"} =>
                  tx_queue = q
    /\ tx_queue = Ascending(((fpResetAt + 1)..fpAdded) \ fpPopped)

\* three transactions were added and the last of them was sent from the queue
C16_Witness ==
    /\ fpLast.op = "send_tx_in_queue"
    /\ fpLast.outcome = "ok"
    /\ fpLast.before.tx_queue = <<1, 2, 3>>
    /\ tx_queue = <<1, 2>>

\* C17: with the private key or the address unset, sign_and_send_transaction
\* raises ValueError and neither signs nor sends, in every state after a
\* reset() that no account setup followed in particular; reset() clears the
\* address, the private key and the queue.
C17_UnsetAccountSendsNothing ==
    /\ (/\ fpLast.op \in {"sign_and_send_transaction", "send_tx_in_queue"}
        /\ fpLast.op = "send_tx_in_queue" => fpLast.before.tx_queue # << >>
        /\ \/ Falsy(fpLast.before.private_key)
           \/ Falsy(fpLast.before.address)
           \/ fpSinceReset) =>
           /\ fpLast.outcome = "ValueError: Account not initialized"
           /\ fpSigned = fpLast.before.signed
           /\ fpSent = fpLast.before.sent
    /\ fpLast.op = "reset" =>
           address = None /\ private_key = None /\ tx_queue = << >>
    /\ fpSinceReset => address = None /\ private_key = None

\* an account was set up and a transaction queued, reset() was called, and
\* sign_and_send_transaction raised
C17_Witness ==
    /\ fpLast.op = "sign_and_send_transaction"
    /\ fpLast.outcome = "ValueError: Account not initialized"
    /\ fpSinceReset
    /\ fpAdded > 0
    /\ fpSent # << >>

====
